---- MODULE Spec2Model ----
(***************************************************************************)
(* Model of examples/Helyx/constant/triSurface/RhinoLoadSTL.py: the batch  *)
(* loop over a directory listing, the NUL-byte sniffer is_binary, the      *)
(* binary decoder (read_header, read_length, read_triangle, the mesh       *)
(* construction of meshBinaryAdder) and the ASCII decoder meshAdder.       *)
(*                                                                         *)
(* A file name is a sequence of one-character strings.  A file content is  *)
(* a record: blocks (one BOOLEAN per block the sniffer iterates over, TRUE *)
(* when the block holds a 0x00 byte), size (bytes), count (the 4-byte      *)
(* count field), facets (the 50-byte facet slots of the binary view, the   *)
(* last one possibly cut short by size) and lines (the text view).         *)
(* A mesh is a record V (vertex list) and F (face list, 0-based indices).  *)
(***************************************************************************)
EXTENDS Integers, Sequences, FiniteSets

\* ------------------------------------------------------------------ bounds
MaxFiles == 2
MaxFacets == 2
MaxLoops == 2

\* ------------------------------------------------------- format constants
HeaderLen == 80
CountLen == 4
VecLen == 12
AttrLen == 2
PreambleLen == HeaderLen + CountLen
FacetLen == 4 * VecLen + AttrLen

\* ------------------------------------------------------------- file names
STL == <<"s", "t", "l">>
DotStl == <<".", "s", "t", "l">>
NameA == <<"a", ".", "s", "t", "l">>
NameB == <<"b", ".", "s", "t", "l">>
NameBare == <<"s", "t", "l">>
NameUpper == <<"a", ".", "S", "T", "L">>
NameTxt == <<"r", ".", "t", "x", "t">>
Names == {NameA, NameB, NameBare, NameUpper, NameTxt}

RECURSIVE LastDot(_, _)
\* position of the last "." among the first k characters, 0 when there is none
LastDot(s, k) ==
  IF k = 0 THEN 0 ELSE IF s[k] = "." THEN k ELSE LastDot(s, k - 1)

\* filename.split('.')[-1]
Ext(name) == SubSeq(name, LastDot(name, Len(name)) + 1, Len(name))

\* the name ends in ".stl"
EndsInDotStl(name) ==
  Len(name) >= 4 /\ SubSeq(name, Len(name) - 3, Len(name)) = DotStl

\* ------------------------------------------------------------------ meshes
\* Rhino.Geometry.Mesh by its documented behaviour: Vertices.Add and
\* Faces.AddFace append to the vertex and face lists (AddFace does not look at
\* the vertex count), Append concatenates, Compact drops unreferenced vertices
EmptyMesh == [V |-> <<>>, F |-> <<>>]

VerticesAdd(m, x, y, z) == [m EXCEPT !.V = Append(@, <<x, y, z>>)]

FacesAddFace(m, a, b, c) == [m EXCEPT !.F = Append(@, <<a, b, c>>)]

\* Append that leaves the appended faces' indices as they are
MeshAppend_NoOffset(M, t) ==
  [V |-> M.V \o t.V, F |-> M.F \o t.F]

\* Mesh.Append: the vertices and faces of t follow those of M, t's face
\* indices shifted by the number of vertices M had
MeshAppend(M, t) ==
  [V |-> M.V \o t.V,
   F |-> M.F \o [k \in 1..Len(t.F) |->
                   <<t.F[k][1] + Len(M.V), t.F[k][2] + Len(M.V), t.F[k][3] + Len(M.V)>>]]

\* every face index names a vertex of the mesh
IndicesValid(m) ==
  \A k \in 1..Len(m.F) : \A j \in 1..3 : m.F[k][j] >= 0 /\ m.F[k][j] < Len(m.V)

Used(m) == {m.F[k][j] : k \in 1..Len(m.F), j \in 1..3}

Rank(m, v) == Cardinality({u \in Used(m) : u < v})

\* Mesh.Compact(): unreferenced vertices are removed and the faces reindexed;
\* a mesh with out-of-range indices is left as it is
Compact(m) ==
  IF ~IndicesValid(m) THEN m
  ELSE [V |-> [r \in 1..Cardinality(Used(m)) |->
                 m.V[(CHOOSE v \in Used(m) : Rank(m, v) = r - 1) + 1]],
        F |-> [k \in 1..Len(m.F) |->
                 <<Rank(m, m.F[k][1]), Rank(m, m.F[k][2]), Rank(m, m.F[k][3])>>]]

\* ----------------------------------------------------------- file contents
Max(a, b) == IF a >= b THEN a ELSE b

\* coordinates of vertex j of facet (or loop) k: facets share coordinate-identical
\* vertices with one another
Coord(k, j) == <<(k + j) % 3, j % 2, 0>>

FacetData(k) ==
  [n |-> <<0, 0, 1>>, p |-> <<Coord(k, 1), Coord(k, 2), Coord(k, 3)>>, b |-> 0]

\* number of facet slots begun in a file of the given size
Slots(size) == IF size <= PreambleLen THEN 0 ELSE (size - PreambleLen + FacetLen - 1) \div FacetLen

BinSizes == {10, 83} \cup {PreambleLen + FacetLen * k + r : k \in 0..MaxFacets, r \in {0, 49}}
Counts == {0, 1}

BinContent(size, count) ==
  [blocks |-> <<FALSE, TRUE>>, size |-> size, count |-> count,
   facets |-> [k \in 1..Slots(size) |-> FacetData(k)], lines |-> <<>>]

BinContents ==
  {BinContent(size, 0) : size \in {s \in BinSizes : s < PreambleLen}}
    \cup {BinContent(size, c) : size \in {s \in BinSizes : s >= PreambleLen}, c \in Counts}

OtherLine == [vertex |-> FALSE, endloop |-> FALSE, toks |-> <<>>]
EndloopLine == [vertex |-> FALSE, endloop |-> TRUE, toks |-> <<>>]
VertexLine(toks) == [vertex |-> TRUE, endloop |-> FALSE, toks |-> toks]

LoopKinds == {"fewer", "more", "short", "long", "trail"}

\* the lines of loop k of a file whose loop odd is irregular in the given way
LoopLines(k, odd, kind) ==
  LET nv == IF k # odd THEN 3 ELSE IF kind = "fewer" THEN 2 ELSE IF kind = "more" THEN 4 ELSE 3
      tk(j) == IF k = odd /\ j = 1 /\ kind = "short" THEN SubSeq(Coord(k, j), 1, 2)
               ELSE IF k = odd /\ j = 1 /\ kind = "long" THEN Coord(k, j) \o <<9>>
               ELSE Coord(k, j)
  IN <<OtherLine>> \o [j \in 1..nv |-> VertexLine(tk(j))] \o <<EndloopLine>>
       \o (IF k = odd /\ kind = "trail" THEN <<VertexLine(Coord(k, 1))>> ELSE <<>>)

RECURSIVE FileLines(_, _, _)
FileLines(nl, odd, kind) ==
  IF nl = 0 THEN <<OtherLine>>
  ELSE FileLines(nl - 1, odd, kind) \o LoopLines(nl, odd, kind)

TextContent(lines) ==
  [blocks |-> [k \in 1..Len(lines) + 1 |-> FALSE], size |-> 0, count |-> 0,
   facets |-> <<>>, lines |-> lines \o <<OtherLine>>]

TextContents ==
  {TextContent(FileLines(nl, 0, "fewer")) : nl \in 0..MaxLoops}
    \cup {TextContent(FileLines(nl, odd, kind)) :
            nl \in 1..MaxLoops, odd \in 1..MaxLoops, kind \in LoopKinds}

Contents == BinContents \cup TextContents

Absent == TextContent(<<>>)

\* contents a directory entry of the given name may have
ContentsOf(name) ==
  IF name \in {NameA, NameB} THEN Contents
  ELSE IF name = NameBare THEN {BinContent(PreambleLen + FacetLen, 1), TextContent(FileLines(1, 0, "fewer"))}
  ELSE IF name = NameUpper THEN {TextContent(FileLines(1, 0, "fewer"))}
  ELSE {BinContent(PreambleLen + FacetLen, 1)}

Range(s) == {s[k] : k \in 1..Len(s)}

Listings ==
  {s \in UNION {[1..k -> Names] : k \in 0..MaxFiles} :
     \A a, b \in 1..Len(s) : a # b => s[a] # s[b]}

\* ------------------------------------------------------------------- state
\* list_of_files  os.listdir('./'); disk: the content of each name
\* i              the batch loop's index, counted from 1
\* pc             where the script is: "loop" (at the head of the batch loop),
\*                "sniffed" (is_binary returned), "decode" (the while loop of
\*                meshBinaryAdder), "build" (its for loop), "reset" (back in
\*                the batch loop, before the reset), "ascii" (the line loop
\*                of meshAdder), "done", "crashed" (an uncaught exception)
\* sniff          what is_binary returned for entry i
\* normals, points, triangles, bytecount   the module-level accumulators
\* f_pos          position of the binary decoder's file object
\* lineNo         the next line of the ASCII decoder's file, n: the for loop's n
\* temp_mesh, MESH   the two meshes of the running decoder
\* objects        the meshes added to the document, each with its layer name
\* handles        names whose file handle is open; opened: names ever opened
\* route          per name, the decoder it went to ("skip": meshAdder returned
\*                at its extension test)
\* appended       the meshes given to MESH.Append for the current file
\* err            the exception that ended the script; redrawn: Redraw was called
VARIABLES list_of_files, disk, i, pc, sniff, normals, points, triangles, bytecount,
          f_pos, lineNo, n, temp_mesh, MESH, objects, handles, opened, route,
          appended, err, redrawn

vars == <<list_of_files, disk, i, pc, sniff, normals, points, triangles, bytecount,
          f_pos, lineNo, n, temp_mesh, MESH, objects, handles, opened, route,
          appended, err, redrawn>>

accumulators == <<normals, points, triangles, bytecount>>
inputs == <<list_of_files, disk>>

\* the directory entry the batch loop is at
cur == list_of_files[i]

Init ==
  /\ \E s \in Listings :
       \E ca \in (IF NameA \in Range(s) THEN Contents ELSE {Absent}),
          cb \in (IF NameB \in Range(s) THEN Contents ELSE {Absent}),
          cs \in (IF NameBare \in Range(s) THEN ContentsOf(NameBare) ELSE {Absent}) :
         /\ list_of_files = s
         /\ disk = [nm \in Names |->
                      IF nm = NameA THEN ca
                      ELSE IF nm = NameB THEN cb
                      ELSE IF nm = NameBare THEN cs
                      ELSE CHOOSE c \in ContentsOf(nm) : TRUE]
  /\ i = 1
  /\ pc = "loop"
  /\ sniff = "-"
  /\ normals = <<>>
  /\ points = <<>>
  /\ triangles = <<>>
  /\ bytecount = <<>>
  /\ f_pos = 0
  /\ lineNo = 0
  /\ n = 0
  /\ temp_mesh = EmptyMesh
  /\ MESH = EmptyMesh
  /\ objects = <<>>
  /\ handles = {}
  /\ opened = {}
  /\ route = [nm \in Names |-> "-"]
  /\ appended = {}
  /\ err = "none"
  /\ redrawn = FALSE

\* ----------------------------------------------------------------- sniffer
\* is_binary: None for another extension, else whether some block holds a NUL
is_binary(name, content) ==
  IF Ext(name) # STL THEN "None"
  ELSE IF \E k \in 1..Len(content.blocks) : content.blocks[k] THEN "True"
  ELSE "False"

\* the batch loop evaluates is_binary(list_of_files[i]); the file is opened
\* and closed inside the call
Sniff ==
  /\ pc = "loop"
  /\ i <= Len(list_of_files)
  /\ sniff' = is_binary(cur, disk[cur])
  /\ opened' = IF Ext(cur) # STL THEN opened ELSE opened \cup {cur}
  /\ pc' = "sniffed"
  /\ UNCHANGED <<inputs, i, accumulators, f_pos, lineNo, n, temp_mesh, MESH, objects,
                 handles, route, appended, err, redrawn>>

\* ---------------------------------------------------------- binary decoder
\* unpack that takes a short read for a whole one
unpack_ShortRead(size, pos, l) ==
  [ok |-> pos < size,
   pos |-> IF pos + l <= size THEN pos + l ELSE Max(pos, size)]

\* unpack: f.read(l) returns the bytes left, at most l, and struct.unpack
\* raises unless it got exactly l of them
unpack(size, pos, l) ==
  [ok |-> pos + l <= size,
   pos |-> IF pos + l <= size THEN pos + l ELSE Max(pos, size)]

\* read_header: seek 80 bytes on, past the end of the file if need be
read_header(pos) == pos + HeaderLen

\* read_length: unpack of the 4-byte count
read_length(content, pos) ==
  [ok |-> unpack(content.size, pos, CountLen).ok,
   pos |-> unpack(content.size, pos, CountLen).pos,
   length |-> content.count]

\* read_triangle: the five reads of one facet; ok when none of them raised
read_triangle(content, pos) ==
  LET r1 == unpack(content.size, pos, VecLen)
      r2 == unpack(content.size, r1.pos, VecLen)
      r3 == unpack(content.size, r2.pos, VecLen)
      r4 == unpack(content.size, r3.pos, VecLen)
      r5 == unpack(content.size, r4.pos, AttrLen)
      k == (pos - PreambleLen) \div FacetLen + 1
  IN [ok |-> r1.ok /\ r2.ok /\ r3.ok /\ r4.ok /\ r5.ok,
      pos |-> IF ~r1.ok THEN r1.pos ELSE IF ~r2.ok THEN r2.pos
              ELSE IF ~r3.ok THEN r3.pos ELSE IF ~r4.ok THEN r4.pos ELSE r5.pos,
      facet |-> IF k \in 1..Len(content.facets) THEN content.facets[k] ELSE FacetData(k)]

\* meshBinaryAdder up to the decode loop: open, read_header, read_length
\* (whose exception nothing catches)
BinaryOpen ==
  /\ pc = "sniffed"
  /\ sniff = "True"
  /\ handles' = handles \cup {cur}
  /\ opened' = opened \cup {cur}
  /\ route' = [route EXCEPT ![cur] = "binary"]
  /\ LET r == read_length(disk[cur], read_header(0))
     IN /\ f_pos' = r.pos
        /\ pc' = IF r.ok THEN "decode" ELSE "crashed"
        /\ err' = IF r.ok THEN err ELSE "struct.error"
  /\ appended' = {}
  /\ UNCHANGED <<inputs, i, sniff, accumulators, lineNo, n, temp_mesh, MESH, objects, redrawn>>

\* one pass of the decode loop: read_triangle appends a whole facet to the
\* accumulators, or raises and the bare except ends the loop; then the two
\* meshes are created and the extension is tested once more
ReadTriangle ==
  /\ pc = "decode"
  /\ LET r == read_triangle(disk[cur], f_pos)
         l == Len(points)
     IN /\ f_pos' = r.pos
        /\ IF r.ok
           THEN /\ normals' = Append(normals, r.facet.n)
                /\ points' = points \o r.facet.p
                /\ triangles' = Append(triangles, <<l, l + 1, l + 2>>)
                /\ bytecount' = Append(bytecount, r.facet.b)
                /\ UNCHANGED <<pc, n, temp_mesh, MESH>>
           ELSE /\ temp_mesh' = EmptyMesh
                /\ MESH' = EmptyMesh
                /\ n' = 0
                /\ pc' = IF Ext(cur) # STL THEN "reset" ELSE "build"
                /\ UNCHANGED accumulators
  /\ UNCHANGED <<inputs, i, sniff, lineNo, objects, handles, opened, route, appended,
                 err, redrawn>>

\* one pass of `for n in range(len(triangles))`: three times a vertex is added,
\* face (0,1,2) is added and temp_mesh is appended to MESH; then temp_mesh is
\* replaced by a new mesh
BuildFacet ==
  /\ pc = "build"
  /\ n < Len(triangles)
  /\ LET P(j) == points[triangles[n + 1][j] + 1]
         t1 == FacesAddFace(VerticesAdd(temp_mesh, P(1)[1], P(1)[2], P(1)[3]), 0, 1, 2)
         M1 == MeshAppend(MESH, t1)
         t2 == FacesAddFace(VerticesAdd(t1, P(2)[1], P(2)[2], P(2)[3]), 0, 1, 2)
         M2 == MeshAppend(M1, t2)
         t3 == FacesAddFace(VerticesAdd(t2, P(3)[1], P(3)[2], P(3)[3]), 0, 1, 2)
         M3 == MeshAppend(M2, t3)
     IN /\ MESH' = M3
        /\ appended' = appended \cup {t1, t2, t3}
  /\ temp_mesh' = EmptyMesh
  /\ n' = n + 1
  /\ UNCHANGED <<inputs, i, pc, sniff, accumulators, f_pos, lineNo, objects, handles,
                 opened, route, err, redrawn>>

\* the end of meshBinaryAdder: the layer is made current, MESH is compacted
\* and added to the document.  f was never closed: the handle is released
\* when the runtime finalizes the file object, by now or later
BinaryEmit ==
  /\ pc = "build"
  /\ n = Len(triangles)
  /\ objects' = Append(objects, [layer |-> cur, mesh |-> Compact(MESH)])
  /\ MESH' = Compact(MESH)
  /\ \E finalized \in BOOLEAN :
       handles' = IF finalized THEN handles \ {cur} ELSE handles
  /\ pc' = "reset"
  /\ UNCHANGED <<inputs, i, sniff, accumulators, f_pos, lineNo, n, temp_mesh, opened,
                 route, appended, err, redrawn>>

\* the reset with points left out
Reset_KeepPoints ==
  /\ pc = "reset"
  /\ normals' = <<>>
  /\ triangles' = <<>>
  /\ bytecount' = <<>>
  /\ i' = i + 1
  /\ pc' = "loop"
  /\ UNCHANGED <<inputs, points, sniff, f_pos, lineNo, n, temp_mesh, MESH, objects,
                 handles, opened, route, appended, err, redrawn>>

\* the batch loop's statement after meshBinaryAdder returns
Reset ==
  /\ pc = "reset"
  /\ normals' = <<>>
  /\ points' = <<>>
  /\ triangles' = <<>>
  /\ bytecount' = <<>>
  /\ i' = i + 1
  /\ pc' = "loop"
  /\ UNCHANGED <<inputs, sniff, f_pos, lineNo, n, temp_mesh, MESH, objects, handles,
                 opened, route, appended, err, redrawn>>

\* ----------------------------------------------------------- ASCII decoder
\* one pass of `for line in f`: a line holding "vertex" adds the vertex of
\* its first three numbers (q[2] raises IndexError when there are fewer), a
\* line holding "endloop" adds face (0,1,2), appends temp_mesh to MESH and
\* starts a new temp_mesh
meshAdderLine(temp, M, line) ==
  LET raised == line.vertex /\ Len(line.toks) < 3
      t1 == IF line.vertex /\ ~raised
            THEN VerticesAdd(temp, line.toks[1], line.toks[2], line.toks[3])
            ELSE temp
      t2 == FacesAddFace(t1, 0, 1, 2)
  IN IF raised THEN [raised |-> TRUE, temp |-> temp, M |-> M, app |-> {}]
     ELSE IF line.endloop
     THEN [raised |-> FALSE, temp |-> EmptyMesh, M |-> MeshAppend(M, t2), app |-> {t2}]
     ELSE [raised |-> FALSE, temp |-> t1, M |-> M, app |-> {}]

\* meshAdder up to the line loop: the two meshes, the extension test, the open
AsciiOpen ==
  /\ pc = "sniffed"
  /\ sniff # "True"
  /\ temp_mesh' = EmptyMesh
  /\ MESH' = EmptyMesh
  /\ appended' = {}
  /\ IF Ext(cur) # STL
     THEN /\ route' = [route EXCEPT ![cur] = "skip"]
          /\ i' = i + 1
          /\ pc' = "loop"
          /\ UNCHANGED <<handles, opened, lineNo>>
     ELSE /\ route' = [route EXCEPT ![cur] = "ascii"]
          /\ handles' = handles \cup {cur}
          /\ opened' = opened \cup {cur}
          /\ lineNo' = 1
          /\ pc' = "ascii"
          /\ UNCHANGED i
  /\ UNCHANGED <<inputs, sniff, accumulators, f_pos, n, objects, err, redrawn>>

\* one line of the file; an exception leaves the with block, which closes the
\* file, and nothing catches it
AsciiLine ==
  /\ pc = "ascii"
  /\ lineNo <= Len(disk[cur].lines)
  /\ LET r == meshAdderLine(temp_mesh, MESH, disk[cur].lines[lineNo])
     IN /\ temp_mesh' = r.temp
        /\ MESH' = r.M
        /\ appended' = appended \cup r.app
        /\ pc' = IF r.raised THEN "crashed" ELSE pc
        /\ err' = IF r.raised THEN "IndexError" ELSE err
        /\ handles' = IF r.raised THEN handles \ {cur} ELSE handles
        /\ lineNo' = IF r.raised THEN lineNo ELSE lineNo + 1
  /\ UNCHANGED <<inputs, i, sniff, accumulators, f_pos, n, objects, opened, route, redrawn>>

\* the end of meshAdder: the with block closes the file, the layer is made
\* current, MESH is compacted and added to the document
AsciiEmit ==
  /\ pc = "ascii"
  /\ lineNo > Len(disk[cur].lines)
  /\ handles' = handles \ {cur}
  /\ objects' = Append(objects, [layer |-> cur, mesh |-> Compact(MESH)])
  /\ MESH' = Compact(MESH)
  /\ i' = i + 1
  /\ pc' = "loop"
  /\ UNCHANGED <<inputs, sniff, accumulators, f_pos, lineNo, n, temp_mesh, opened, route,
                 appended, err, redrawn>>

\* ------------------------------------------------------------- batch loop
\* after the last entry: sr.doc.Views.Redraw()
Redraw ==
  /\ pc = "loop"
  /\ i > Len(list_of_files)
  /\ redrawn' = TRUE
  /\ pc' = "done"
  /\ UNCHANGED <<inputs, i, sniff, accumulators, f_pos, lineNo, n, temp_mesh, MESH,
                 objects, handles, opened, route, appended, err>>

Next ==
  \/ Sniff
  \/ BinaryOpen
  \/ ReadTriangle
  \/ BuildFacet
  \/ BinaryEmit
  \/ Reset
  \/ AsciiOpen
  \/ AsciiLine
  \/ AsciiEmit
  \/ Redraw

Spec == Init /\ [][Next]_vars

TypeOK ==
  /\ pc \in {"loop", "sniffed", "decode", "build", "reset", "ascii", "done", "crashed"}
  /\ i \in 1..Len(list_of_files) + 1
  /\ err \in {"none", "struct.error", "IndexError"}

\* ------------------------------------------------------------- properties
\* the batch loop is inside the processing of entry i
InFile == pc \in {"sniffed", "decode", "build", "reset", "ascii", "crashed"}

\* complete facets after the preamble of a file of the given size
Complete(size) == (size - PreambleLen) \div FacetLen

\* triangle k of a mesh is (3k, 3k+1, 3k+2), k counted from 0
FlatTriangles(m) ==
  \A k \in 1..Len(m.F) : m.F[k] = <<3 * (k - 1), 3 * (k - 1) + 1, 3 * (k - 1) + 2>>

RECURSIVE Pending(_, _)
\* number of vertex lines among the first k lines since the last endloop line
Pending(lines, k) ==
  IF k = 0 \/ lines[k].endloop THEN 0
  ELSE Pending(lines, k - 1) + (IF lines[k].vertex THEN 1 ELSE 0)

Endloops(lines) == {k \in 1..Len(lines) : lines[k].endloop}

\* every endloop line is preceded by exactly 3 vertex lines since the previous one
ThreePerLoop(lines) == \A k \in Endloops(lines) : Pending(lines, k - 1) = 3

RECURSIVE VerticesUpTo(_, _)
\* the coordinates on the vertex lines among the first k lines, in file order
VerticesUpTo(lines, k) ==
  IF k = 0 THEN <<>>
  ELSE VerticesUpTo(lines, k - 1)
         \o (IF lines[k].vertex THEN <<SubSeq(lines[k].toks, 1, 3)>> ELSE <<>>)

LastEndloop(lines) ==
  IF Endloops(lines) = {} THEN 0
  ELSE CHOOSE k \in Endloops(lines) : \A j \in Endloops(lines) : j <= k

\* C1: a binary file of the 84-byte preamble and exactly N complete facets
\* gives a mesh of 3N vertices and N triangles, triangle k being (3k, 3k+1, 3k+2)
C1_BinaryMeshShape ==
  \A k \in 1..Len(objects) :
    LET nm == objects[k].layer
        c == disk[nm]
        m == objects[k].mesh
    IN (route[nm] = "binary" /\ c.size >= PreambleLen
          /\ (c.size - PreambleLen) % FacetLen = 0)
         => /\ Len(m.V) = 3 * Complete(c.size)
            /\ Len(m.F) = Complete(c.size)
            /\ FlatTriangles(m)

\* C2: an ASCII file with N endloop lines, each preceded by exactly 3 vertex
\* lines, gives a mesh of 3N vertices and N triangles, triangle k being
\* (3k, 3k+1, 3k+2), the vertices in file order and none of them merged
C2_AsciiMeshShape ==
  \A k \in 1..Len(objects) :
    LET nm == objects[k].layer
        lines == disk[nm].lines
        m == objects[k].mesh
    IN (route[nm] = "ascii" /\ ThreePerLoop(lines))
         => /\ Len(m.V) = 3 * Cardinality(Endloops(lines))
            /\ Len(m.F) = Cardinality(Endloops(lines))
            /\ FlatTriangles(m)
            /\ m.V = VerticesUpTo(lines, LastEndloop(lines))

\* C2 happens: a mesh of two loops was emitted, with a coordinate stored twice
C2_Witness ==
  \E k \in 1..Len(objects) :
    /\ route[objects[k].layer] = "ascii"
    /\ ThreePerLoop(disk[objects[k].layer].lines)
    /\ Cardinality(Endloops(disk[objects[k].layer].lines)) = 2
    /\ \E a, b \in 1..Len(objects[k].mesh.V) :
         a # b /\ objects[k].mesh.V[a] = objects[k].mesh.V[b]

\* C3: the accumulators always hold whole facets (len(points) = 3 len(triangles)
\* = 3 len(normals) = 3 len(bytecount)), and when the decode loop of a file
\* with B bytes after the preamble has ended they hold floor(B / 50) facets
\* and no error was raised, whatever the count field says
C3_Truncation ==
  /\ Len(points) = 3 * Len(triangles)
  /\ Len(normals) = Len(triangles)
  /\ Len(bytecount) = Len(triangles)
  /\ pc = "build" => /\ Len(triangles) = Complete(disk[cur].size)
                     /\ err = "none"

\* C3 happens: a file cut inside its second or later facet was decoded, its
\* count field naming another number of facets
C3_Witness ==
  /\ pc = "build"
  /\ (disk[cur].size - PreambleLen) % FacetLen # 0
  /\ Len(triangles) >= 1
  /\ disk[cur].count # Len(triangles)

\* C4: the binary decoder never raises: no file given to meshBinaryAdder ends
\* the run inside it
C4_BinaryNeverRaises ==
  ~(pc = "crashed" /\ route[cur] = "binary")

\* C5: an entry is left unopened and without a mesh iff its name does not
\* end in .stl; an entry treated as STL goes to the binary decoder iff one of
\* its bytes is 0x00 and to the ASCII decoder otherwise
C5_Classification ==
  \A k \in 1..Len(list_of_files) :
    LET nm == list_of_files[k]
        nul == \E b \in 1..Len(disk[nm].blocks) : disk[nm].blocks[b]
    IN k < i =>
         /\ ((nm \notin opened /\ \A o \in 1..Len(objects) : objects[o].layer # nm)
               <=> ~EndsInDotStl(nm))
         /\ (nm \in opened => ((route[nm] = "binary") <=> nul))
         /\ (nm \in opened => ((route[nm] = "ascii") <=> ~nul))

\* C6: the accumulators are empty whenever a binary decode starts, and two
\* binary files of the same bytes give the same mesh
C6_NoFacetLeakage ==
  /\ (pc = "sniffed" \/ (pc = "decode" /\ f_pos = PreambleLen))
       => normals = <<>> /\ points = <<>> /\ triangles = <<>> /\ bytecount = <<>>
  /\ \A a, b \in 1..Len(objects) :
       (route[objects[a].layer] = "binary" /\ route[objects[b].layer] = "binary"
          /\ disk[objects[a].layer] = disk[objects[b].layer])
         => objects[a].mesh = objects[b].mesh

\* C6 happens: the same binary file, of one facet or more, was decoded twice
\* in one batch
C6_Witness ==
  /\ Len(objects) = 2
  /\ route[objects[1].layer] = "binary"
  /\ route[objects[2].layer] = "binary"
  /\ disk[objects[1].layer] = disk[objects[2].layer]
  /\ Len(objects[1].mesh.F) > 0

\* C7: no handle is open when the batch loop considers an entry, and the
\* handles of two files are never open at once
C7_HandlesReleased ==
  /\ pc = "loop" => handles = {}
  /\ Cardinality(handles) <= 1

\* C8: every mesh appended to the combined mesh, and every mesh handed to the
\* document, has all its triangle indices below its number of vertices; on
\* the ASCII path the appended mesh holds exactly 3 vertices
C8_IndexValidity ==
  /\ \A m \in appended : IndicesValid(m)
  /\ \A k \in 1..Len(objects) : IndicesValid(objects[k].mesh)
  /\ pc = "ascii" => \A m \in appended : Len(m.V) = 3

\* C9: a vertex line that does not hold exactly 3 numbers is a parse failure:
\* the ASCII decoder never gets past such a line
C9_MalformedVertexIsError ==
  pc = "ascii" =>
    \A k \in 1..lineNo - 1 :
      disk[cur].lines[k].vertex => Len(disk[cur].lines[k].toks) = 3

\* C10: a run in which an ASCII file failed on a malformed vertex line still
\* ends with every entry processed and the redraw signalled
C10_PerFileIsolation ==
  (err = "IndexError" /\ pc \in {"done", "crashed"})
    => redrawn /\ i > Len(list_of_files)

====
